---- MODULE Spec2Model ----
(***************************************************************************)
(* A model of the flow-state store (src/src/index.ts, createFlowStore).    *)
(*                                                                         *)
(* JavaScript values are modelled with their identity: a value is either a *)
(* primitive (compared by content) or a reference to an object of the heap *)
(* (compared by address).  The store's closure variables `state`, `init`   *)
(* and `listeners` are the variables of the same names.  Calls of the      *)
(* store's methods are made by the application (when no call is running)   *)
(* or by a listener that is being run by notify; a call of update or       *)
(* notify that has listeners to run is a frame of `stack`, and the         *)
(* listeners.forEach loop of notify advances one listener per step.        *)
(***************************************************************************)
EXTENDS Integers, Sequences, FiniteSets, TLC

\* ------------------------------------------------------------------ bounds
\* Callbacks that application code may subscribe (besides the hook's own).
NumListeners == 1
\* Objects allocated by the spread of update that are alive at one time.
MaxAlloc == 2
\* Nesting depth of update/notify calls made from inside listeners.
MaxDepth == 2
\* Callbacks of an application whose listeners call the store themselves.
NumCallbacks == 2
\* Calls of the store that listeners make while one call of the application
\* is running.
MaxCalls == 2

\* ------------------------------------------------------------------ values
Keys == {"a", "b"}

Absent == [tag |-> "absent", id |-> 0]
Undef == [tag |-> "undef", id |-> 0]
NoVal == [tag |-> "none", id |-> 0]
Prim(n) == [tag |-> "prim", id |-> n]
Ref(a) == [tag |-> "ref", id |-> a]

Obj(kind, fa, fb, code, cap) ==
  [kind |-> kind, f |-> [k \in Keys |-> IF k = "a" THEN fa ELSE fb],
   code |-> code, cap |-> cap]

FreeObj == Obj("free", Absent, Absent, "", NoVal)

\* The objects application code has at hand: the shapes used by the tests and
\* the README (a record with a nested record, partial records, an array, a
\* class instance) and the updater functions handed to update.
Heap0 ==
  << Obj("plain", Prim(1), Ref(2), "", NoVal),         \* 1: {a: 1, b: #2}
     Obj("plain", Prim(1), Absent, "", NoVal),         \* 2: {a: 1}
     Obj("plain", Prim(2), Absent, "", NoVal),         \* 3: {a: 2}
     Obj("plain", Absent, Ref(3), "", NoVal),          \* 4: {b: #3}
     Obj("plain", Absent, Absent, "", NoVal),          \* 5: {}
     Obj("array", Ref(2), Absent, "", NoVal),          \* 6: [#2]
     Obj("instance", Prim(1), Absent, "", NoVal),      \* 7: new C(), a = 1
     Obj("function", Absent, Absent, "identity", NoVal),   \* 8: (s) => s
     Obj("function", Absent, Absent, "const", Ref(4)),     \* 9: (s) => #4
     Obj("function", Absent, Absent, "flip", NoVal),       \* 10: (s) => s?.a === 1 ? #3 : #2
     Obj("function", Absent, Absent, "throw", NoVal) >>    \* 11: (s) => { throw e }

Static == 1..Len(Heap0)
Addr == 1..(Len(Heap0) + MaxAlloc)
Prims == {Prim(1), Undef}

\* typeof obj === 'object' in place of the constructor test
MutIsObject(v, h) == v.tag = "ref" /\ h[v.id].kind \in {"plain", "array", "instance"}
\* const isObject = (obj) => obj?.constructor === Object
isObject(v, h) == v.tag = "ref" /\ h[v.id].kind = "plain"
\* const isFunction = (v) => typeof v === 'function'
isFunction(v, h) == v.tag = "ref" /\ h[v.id].kind = "function"
\* const identity = (v) => v
identity(v) == v

\* The updater's exception caught and dropped
MutThrows(partial, h) == FALSE
\* The call partial(prev) does not return: the updater throws.
Throws(partial, h) == isFunction(partial, h) /\ h[partial.id].code = "throw"

\* The call partial(prev) of an updater function that returns.
Apply(fn, prev, h) ==
  CASE h[fn.id].code = "identity" -> identity(prev)
    [] h[fn.id].code = "const" -> h[fn.id].cap
    [] h[fn.id].code = "flip" ->
         IF prev.tag = "ref" /\ h[prev.id].f["a"] = Prim(1) THEN Ref(3) ELSE Ref(2)
    [] OTHER -> NoVal

\* { ...result, ...prev }: the spread the wrong way round
MutSpread(p, r) ==
  [kind |-> "plain", f |-> [k \in Keys |-> IF p.f[k] # Absent THEN p.f[k] ELSE r.f[k]],
   code |-> "", cap |-> NoVal]

\* { ...prev, ...result }: the own fields of prev, overwritten by those of
\* result, in a newly allocated plain object.
Spread(p, r) ==
  [kind |-> "plain", f |-> [k \in Keys |-> IF r.f[k] # Absent THEN r.f[k] ELSE p.f[k]],
   code |-> "", cap |-> NoVal]

FreeAddrs(h) == {a \in Addr : h[a].kind = "free"}
NewAddr(h) == CHOOSE a \in FreeAddrs(h) : \A b \in FreeAddrs(h) : a <= b

\* An allocated object that nothing refers to any longer is freed.
Collect(h, roots) ==
  [a \in Addr |-> IF a \notin Static /\ Ref(a) \notin roots THEN FreeObj ELSE h[a]]

\* Lines 51-56 of update: the result, whether it is merged, and the next
\* value together with the heap that holds it.
UpdateResult(partial, prev, h) ==
  IF isFunction(partial, h) THEN Apply(partial, prev, h) ELSE partial

\* The merge test without !replace
MutMerges(result, prev, replace, h) == isObject(result, h) /\ isObject(prev, h)

Merges(result, prev, replace, h) ==
  ~replace /\ isObject(result, h) /\ isObject(prev, h)

\* Object.assign(prev, result): the merge written into the state object
MutUpdateHeap(result, prev, replace, h) ==
  IF Merges(result, prev, replace, h)
  THEN [h EXCEPT ![NewAddr(h)] = Spread(h[prev.id], h[result.id]),
                 ![prev.id] = Spread(h[prev.id], h[result.id])]
  ELSE h

UpdateHeap(result, prev, replace, h) ==
  IF Merges(result, prev, replace, h)
  THEN [h EXCEPT ![NewAddr(h)] = Spread(h[prev.id], h[result.id])]
  ELSE h

\* A merge that keeps the state object when no field would change
MutUpdateNext(result, prev, replace, h) ==
  IF Merges(result, prev, replace, h)
  THEN (IF Spread(h[prev.id], h[result.id]).f = h[prev.id].f THEN prev
        ELSE Ref(NewAddr(h)))
  ELSE result
UpdateNext(result, prev, replace, h) ==
  IF Merges(result, prev, replace, h) THEN Ref(NewAddr(h)) ELSE result

\* No test at line 58: every update assigns and notifies
MutStrictNotEqual(x, y) == TRUE
\* next !== state
StrictNotEqual(x, y) == x # y

\* ------------------------------------------------------------------- state
VARIABLES
  heap,        \* the objects alive, by address
  state,       \* let state = init (line 19)
  init,        \* the argument of createFlowStore (line 18)
  listeners,   \* new Set<Listener<T>>() (line 20), in insertion order
  stack,       \* the running calls of update, resetState and notify
  closure,     \* per callback: calls made of the function its last subscribe returned
  cleared,     \* unsubscribeAll has returned and nothing was subscribed since
  sel,         \* the selector of the component bound by useFlowSelector
  rendered,    \* the slice that component rendered last
  rerendered,  \* whether it re-rendered during the running outermost call
  subs         \* history: the registered callbacks by the subscribe call that
               \* added each (added) and by the last one made for each (recent)

vars == <<heap, state, init, listeners, stack, closure, cleared, sel, rendered, rerendered,
          subs>>

\* The callback React's useSyncExternalStore subscribes for the bound
\* component, and the callbacks of application code.
HookL == 0
Listeners == 1..NumListeners
Callbacks == 1..NumCallbacks
AllL == {HookL} \cup Listeners \cup Callbacks
NoL == -1
NoClosure == -1

Selectors == {"identity", "b"}

\* The snapshot without the selector
MutSelect(s, v, h) == v
\* () => selector(getState()): identity (useFlowState) or (s) => s?.b
Select(s, v, h) ==
  IF s = "identity" THEN identity(v)
  ELSE IF v.tag = "ref" /\ h[v.id].f["b"] # Absent THEN h[v.id].f["b"] ELSE Undef

SetOf(ls) == {ls[i] : i \in DOMAIN ls}
IndexOf(ls, l) == CHOOSE i \in DOMAIN ls : ls[i] = l
NoGot == [l \in AllL |-> NoVal]

\* The activation record of a call of update, resetState or notify: what it
\* was given, what it computed, where its forEach stands, what it handed to
\* each listener last (got) and what each listener was handed last while the
\* call was running, by this call or by one made during it (last).
MkCall(kind, arg, replace, prev, result, val, accepted, ls) ==
  [kind |-> kind, arg |-> arg, replace |-> replace, prev |-> prev,
   result |-> result, val |-> val, accepted |-> accepted, snap |-> SetOf(ls),
   idx |-> 0, body |-> NoL, got |-> NoGot, removed |-> {}, nested |-> FALSE,
   threw |-> FALSE, calls |-> 0, back |-> {}, last |-> NoGot]

Top == stack[Len(stack)]
Outermost == stack = <<>>
\* The listener that notify is running may call the store.
InBody == IF stack = <<>> THEN FALSE ELSE Top.body # NoL
\* The call runs listeners.forEach: a notify, or an update that assigned.
Runs(f) == f.kind = "notify" \/ f.accepted
\* The call has nothing left to do but return: forEach is through, or an
\* exception has ended the call.
Finished(f) == f.body = NoL /\ ((Runs(f) /\ ~f.threw) => f.idx >= Len(listeners))

Roots(st, stk, rend) ==
  {st, rend} \cup UNION {{stk[i].arg, stk[i].prev, stk[i].result, stk[i].val} : i \in DOMAIN stk}
             \cup UNION {{stk[i].got[l] : l \in AllL} : i \in DOMAIN stk}
             \cup UNION {{stk[i].last[l] : l \in AllL} : i \in DOMAIN stk}

\* What createFlowStore is given: a record, a primitive or a function.
Inits == {Ref(1), Prim(1), Ref(8)}

\* A getState that returns the value captured when the store was created
MutGetState == init
\* A getState that returns, inside a listener, the value being broadcast
MutGetStateHanded == IF stack = <<>> THEN state ELSE Top.val
\* const getState = () => state (line 25)
getState == state
\* getInit returning the current state
MutGetInit == state
\* const getInit = () => init (line 35)
getInit == init

Init ==
  /\ heap = [a \in Addr |-> IF a \in Static THEN Heap0[a] ELSE FreeObj]
  /\ init \in Inits
  /\ state = init
  /\ listeners = <<>>
  /\ stack = <<>>
  /\ closure = [l \in Listeners \cup Callbacks |-> NoClosure]
  /\ cleared = FALSE
  /\ sel = "none"
  /\ rendered = NoVal
  /\ rerendered = FALSE
  /\ subs = [added |-> <<>>, recent |-> <<>>]

\* ----------------------------------------------------------------- update
\* setState(next) (line 59)
Assigned(next) == next

MarkNested(stk) == [i \in DOMAIN stk |-> [stk[i] EXCEPT !.nested = TRUE]]

\* A listener has made one more call of the store during the running call of
\* the application (counted as far as MaxCalls).
Called(stk) ==
  IF stk = <<>> THEN stk
  ELSE [stk EXCEPT ![1].calls = IF @ < MaxCalls THEN @ + 1 ELSE @]
\* The listener that notify is running may make a call.
CanCall == IF stack = <<>> THEN FALSE ELSE Top.body # NoL /\ stack[1].calls < MaxCalls

\* update(partial, replace) (lines 47-62): compute result and next; when next
\* differs from the state, assign it and start notify(next).  An updater that
\* throws ends the call at line 52: the exception is on its way to the caller.
DoUpdate(kind, partial, replace) ==
  LET prev == getState
      threw == Throws(partial, heap)
      result == UpdateResult(partial, prev, heap)
      next == UpdateNext(result, prev, replace, heap)
      accepted == ~threw /\ StrictNotEqual(next, state)
      call == [MkCall(kind, partial, replace, prev, result, next, accepted, listeners)
                 EXCEPT !.threw = threw]
  IN /\ Len(stack) < MaxDepth
     /\ Merges(result, prev, replace, heap) => FreeAddrs(heap) # {}
     /\ state' = IF accepted THEN Assigned(next) ELSE state
     /\ stack' = Append(Called(IF accepted THEN MarkNested(stack) ELSE stack), call)
     /\ heap' = Collect(UpdateHeap(result, prev, replace, heap),
                        Roots(state', stack', rendered))
     /\ rerendered' = (~Outermost /\ rerendered)
     /\ UNCHANGED <<init, listeners, subs, closure, cleared, sel, rendered>>

\* What application code hands to update: a primitive, undefined, a partial
\* record, an array, a class instance or an updater function.
UpdateArgs == Prims \cup {Ref(a) : a \in 3..Len(Heap0)}

Update ==
  /\ Outermost
  /\ \E x \in UpdateArgs, r \in BOOLEAN : DoUpdate("update", x, r)

\* resetState = () => update(getInit(), true) (line 39)
ResetState ==
  /\ Outermost
  /\ DoUpdate("reset", getInit, TRUE)

\* What notify is called with by hand: nothing, undefined, a primitive or a
\* record.
NoArg == NoVal
NotifyArgs == {NoArg, Undef, Prim(1), Ref(3)}

\* A notify that hands on the state whatever it is given
MutNotifyValue(v) == getState
\* (s = getState()) (line 66): the default applies when the argument is
\* missing or undefined.
NotifyValue(v) == IF v \in {NoArg, Undef} THEN getState ELSE v

\* notify(s) (lines 66-68)
DoNotify(v) ==
  /\ Len(stack) < MaxDepth
  /\ stack' = Append(stack, MkCall("notify", v, FALSE, state, NoVal, NotifyValue(v),
                                   FALSE, listeners))
  /\ rerendered' = (~Outermost /\ rerendered)
  /\ UNCHANGED <<heap, state, init, listeners, subs, closure, cleared, sel, rendered>>

Notify ==
  /\ Outermost
  /\ \E v \in NotifyArgs : DoNotify(v)

\* notify handing on the state it was called in
MutHanded(f) == f.prev
\* l(s) (line 67): the value a listener is handed
Handed(f) == f.val

\* One turn of listeners.forEach((l) => l(s)): the next listener is called.
\* React's callback re-reads the snapshot and re-renders the component when
\* the slice is another value; an application callback runs its body.
Invoke ==
  /\ stack # <<>>
  /\ Top.body = NoL
  /\ Runs(Top)
  /\ ~Top.threw
  /\ Top.idx < Len(listeners)
  /\ LET l == listeners[Top.idx + 1]
         slice == Select(sel, getState, heap)
     IN /\ stack' = [i \in DOMAIN stack |->
                       IF i = Len(stack)
                       THEN [stack[i] EXCEPT !.idx = @ + 1, !.got[l] = Handed(Top),
                                             !.last[l] = Handed(Top),
                                             !.body = IF l = HookL THEN NoL ELSE l]
                       ELSE [stack[i] EXCEPT !.last[l] = Handed(Top)]]
        /\ IF l = HookL /\ slice # rendered
           THEN rendered' = slice /\ rerendered' = TRUE
           ELSE UNCHANGED <<rendered, rerendered>>
  /\ heap' = Collect(heap, Roots(state, stack', rendered'))
  /\ UNCHANGED <<state, init, listeners, subs, closure, cleared, sel>>

\* The listener's body returns to forEach.
ListenerReturn ==
  /\ InBody
  /\ stack' = [stack EXCEPT ![Len(stack)] = [@ EXCEPT !.body = NoL]]
  /\ UNCHANGED <<heap, state, init, listeners, subs, closure, cleared, sel, rendered, rerendered>>

\* A try/catch around l(s): forEach goes on with the next listener
MutThrown(f) == [f EXCEPT !.body = NoL]
\* An exception thrown in l(s) (line 67) is caught nowhere in the store: it
\* leaves forEach, notify (line 60) and update, and the call is over.
Thrown(f) == [f EXCEPT !.body = NoL, !.threw = TRUE]

\* The body of the running listener throws.
ListenerThrow ==
  /\ InBody
  /\ stack' = [stack EXCEPT ![Len(stack)] = Thrown(@)]
  /\ UNCHANGED <<heap, state, init, listeners, subs, closure, cleared, sel, rendered, rerendered>>

\* The calls that are left when the running one ends.  An exception it ends
\* with arrives in the body of the listener that made the call, which
\* catches it or lets it pass on.
Unwound(stk, caught) ==
  LET rest == SubSeq(stk, 1, Len(stk) - 1)
  IN IF stk[Len(stk)].threw /\ rest # <<>> /\ ~caught
     THEN [rest EXCEPT ![Len(rest)] = Thrown(@)]
     ELSE rest

\* forEach has no entry left, update found nothing to assign, or an exception
\* ended the call: control is back in the caller.
Return ==
  /\ stack # <<>>
  /\ Finished(Top)
  /\ \E caught \in BOOLEAN : stack' = Unwound(stack, caught)
  /\ heap' = Collect(heap, Roots(state, stack', rendered))
  /\ rerendered' = (stack' # <<>> /\ rerendered)
  /\ UNCHANGED <<state, init, listeners, subs, closure, cleared, sel, rendered>>

\* ----------------------------------------------------------- subscriptions
\* An array in place of the Set: listeners.push(listener)
MutSetAddPush(ls, l) == Append(ls, l)
\* A subscribe that deletes the callback before it adds it
MutSetAddLast(ls, l) == Append(SelectSeq(ls, LAMBDA x : x # l), l)
\* listeners.add(listener) (line 76)
SetAdd(ls, l) == IF l \in SetOf(ls) THEN ls ELSE Append(ls, l)

\* A delete that is put off while a forEach is running
MutSetDeleteLater(ls, l) == ls
\* Deleting by splice(indexOf(listener), 1): an absent listener takes the
\* last entry with it
MutSetDelete(ls, l) ==
  IF l \in SetOf(ls) THEN SelectSeq(ls, LAMBDA x : x # l) ELSE SubSeq(ls, 1, Len(ls) - 1)
\* listeners.delete(listener) (line 83)
SetDelete(ls, l) == SelectSeq(ls, LAMBDA x : x # l)

\* A forEach that has passed the deleted entry has one entry less behind it;
\* one that has not reached it will not find it.
Passed(stk, ls, l) ==
  IF l \in SetOf(ls)
  THEN [i \in DOMAIN stk |->
          [stk[i] EXCEPT !.idx = IF IndexOf(ls, l) <= @ THEN @ - 1 ELSE @,
                         !.removed = IF IndexOf(ls, l) > stk[i].idx THEN @ \cup {l} ELSE @,
                         !.back = @ \ {l}]]
  ELSE stk

\* An entry that is added (again) is at the end, where every running forEach
\* will reach it.
Added(stk, l) ==
  [i \in DOMAIN stk |->
     [stk[i] EXCEPT !.back = IF l \in stk[i].removed THEN @ \cup {l} ELSE @]]

\* The history of subscribe calls after subscribe(l) and after
\* unsubscribe(l).
Subscribed(h, l) ==
  [added |-> IF \E i \in DOMAIN h.added : h.added[i] = l THEN h.added
             ELSE h.added \o <<l>>,
   recent |-> SelectSeq(h.recent, LAMBDA x : x # l) \o <<l>>]
Unsubscribed(h, l) ==
  [added |-> SelectSeq(h.added, LAMBDA x : x # l),
   recent |-> SelectSeq(h.recent, LAMBDA x : x # l)]

\* subscribe(listener) (lines 75-78)
DoSubscribe(l) ==
  /\ listeners' = SetAdd(listeners, l)
  /\ subs' = Subscribed(subs, l)
  /\ stack' = Called(IF l \in SetOf(listeners) THEN stack ELSE Added(stack, l))
  /\ closure' = [closure EXCEPT ![l] = 0]
  /\ cleared' = FALSE
  /\ UNCHANGED <<heap, state, init, sel, rendered, rerendered>>

Subscribe ==
  /\ Outermost
  /\ \E l \in Listeners : DoSubscribe(l)

\* unsubscribe(listener) (lines 82-84)
DoUnsubscribe(l) ==
  /\ listeners' = SetDelete(listeners, l)
  /\ subs' = Unsubscribed(subs, l)
  /\ stack' = Called(Passed(stack, listeners, l))
  /\ UNCHANGED <<heap, state, init, cleared, sel, rendered, rerendered>>

Unsubscribe ==
  /\ Outermost
  /\ \E l \in Listeners : DoUnsubscribe(l) /\ UNCHANGED closure

\* () => unsubscribe(listener) (line 77), the function subscribe returned
DoUnsubscribeFn(l) ==
  /\ closure[l] # NoClosure
  /\ DoUnsubscribe(l)
  /\ closure' = [closure EXCEPT ![l] = IF @ = 0 THEN 1 ELSE 2]

UnsubscribeFn ==
  /\ Outermost
  /\ \E l \in Listeners : DoUnsubscribeFn(l)

\* listeners.forEach(unsubscribe) (line 88): forEach goes from entry to
\* entry; an entry that unsubscribe deletes moves those after it one place
\* down.
\* A loop that steps over the entry that moved into the deleted one's place
MutForEachUnsubscribe(ls, stk, i) ==
  [ls |-> [j \in 1..(Len(ls) \div 2) |-> ls[2 * j]], stk |-> stk]
RECURSIVE ForEachUnsubscribe(_, _, _)
ForEachUnsubscribe(ls, stk, i) ==
  IF i >= Len(ls) THEN [ls |-> ls, stk |-> stk]
  ELSE LET l == ls[i + 1]
           rest == SetDelete(ls, l)
       IN ForEachUnsubscribe(rest, Passed(stk, ls, l),
                             IF l \in SetOf(rest) THEN i + 1 ELSE i)

\* A component whose subscription is deleted is bound no longer.
DoUnsubscribeAll ==
  LET r == ForEachUnsubscribe(listeners, stack, 0)
  IN /\ listeners' = r.ls
     /\ subs' = [added |-> <<>>, recent |-> <<>>]
     /\ stack' = Called(r.stk)
     /\ cleared' = TRUE
     /\ sel' = "none"
     /\ rendered' = NoVal
     /\ heap' = Collect(heap, Roots(state, stack', rendered'))
     /\ UNCHANGED <<state, init, closure, rerendered>>

UnsubscribeAll ==
  /\ Outermost
  /\ DoUnsubscribeAll

\* --------------------------------------------------------------- the hook
\* useFlowSelector(selector) (lines 115-122) in a component that mounts:
\* useSyncExternalStore renders selector(getState()) and subscribes.
Mount ==
  /\ Outermost
  /\ HookL \notin SetOf(listeners)
  /\ \E s \in Selectors :
       /\ sel' = s
       /\ rendered' = Select(s, getState, heap)
  /\ listeners' = SetAdd(listeners, HookL)
  /\ subs' = Subscribed(subs, HookL)
  /\ cleared' = FALSE
  /\ UNCHANGED <<heap, state, init, stack, closure, rerendered>>

\* The component unmounts: React calls the function subscribe returned.
Unmount ==
  /\ Outermost
  /\ HookL \in SetOf(listeners)
  /\ listeners' = SetDelete(listeners, HookL)
  /\ subs' = Unsubscribed(subs, HookL)
  /\ sel' = "none"
  /\ rendered' = NoVal
  /\ heap' = Collect(heap, Roots(state, stack, rendered'))
  /\ UNCHANGED <<state, init, stack, closure, cleared, rerendered>>

\* Application code calls the store; its listeners only look at what they
\* are handed.
Next ==
  \/ Update
  \/ ResetState
  \/ Notify
  \/ Invoke
  \/ ListenerReturn
  \/ Return
  \/ Subscribe
  \/ Unsubscribe
  \/ UnsubscribeFn
  \/ UnsubscribeAll
  \/ Mount
  \/ Unmount

Spec == Init /\ [][Next]_vars

\* ------------------------------------------------- listeners that call back
\* An application without bound components whose callbacks call the store
\* from inside a notify cycle (the middleware of the tests): the store is
\* created with a record, the application merges a partial record, and its
\* callbacks replace the state through an updater whose result depends on it.
InitR == Init /\ init = Ref(1)

AppArgs == {<<Ref(3), FALSE>>}
CallArgs == {<<Ref(10), TRUE>>}

AppUpdate ==
  /\ Outermost
  /\ \E c \in AppArgs : DoUpdate("update", c[1], c[2])

AppSubscribe ==
  /\ Outermost
  /\ \E l \in Callbacks : DoSubscribe(l)

\* The running listener calls update, subscribe, unsubscribe, a function
\* subscribe returned, or unsubscribeAll.
CallUpdate ==
  /\ CanCall
  /\ \E c \in CallArgs : DoUpdate("update", c[1], c[2])

CallSubscribe ==
  /\ CanCall
  /\ \E l \in Callbacks : DoSubscribe(l)

CallUnsubscribe ==
  /\ CanCall
  /\ \E l \in Callbacks : DoUnsubscribe(l) /\ UNCHANGED closure

CallUnsubscribeFn ==
  /\ CanCall
  /\ \E l \in Callbacks : DoUnsubscribeFn(l)

CallUnsubscribeAll ==
  /\ CanCall
  /\ DoUnsubscribeAll

NextR ==
  \/ AppUpdate
  \/ AppSubscribe
  \/ Invoke
  \/ ListenerReturn
  \/ Return
  \/ CallUpdate
  \/ CallSubscribe
  \/ CallUnsubscribe
  \/ CallUnsubscribeFn
  \/ CallUnsubscribeAll

SpecR == InitR /\ [][NextR]_vars

\* ------------------------------------------------- listeners that throw
\* An application whose callbacks call update and unsubscribe from inside a
\* notify cycle and may throw; a callback that called update may catch what
\* the call throws.
NextT ==
  \/ AppUpdate
  \/ AppSubscribe
  \/ Invoke
  \/ ListenerReturn
  \/ Return
  \/ CallUpdate
  \/ CallUnsubscribe
  \/ ListenerThrow

SpecT == InitR /\ [][NextT]_vars

\* ------------------------------------- listeners that change the registry
\* An application whose callbacks subscribe and unsubscribe callbacks while a
\* notify cycle runs them, as often as they like, and never call update or
\* notify.  The code is synchronous: forEach goes on to the next entry, a
\* callback's body returns, and a call whose forEach is through returns.
AppNotify ==
  /\ Outermost
  /\ DoNotify(NoArg)

BodySubscribe ==
  /\ InBody
  /\ \E l \in Callbacks : DoSubscribe(l)

BodyUnsubscribe ==
  /\ InBody
  /\ \E l \in Callbacks : DoUnsubscribe(l) /\ UNCHANGED closure

BodyUnsubscribeAll ==
  /\ InBody
  /\ DoUnsubscribeAll

NextS ==
  \/ AppSubscribe
  \/ AppNotify
  \/ Invoke
  \/ ListenerReturn
  \/ Return
  \/ BodySubscribe
  \/ BodyUnsubscribe
  \/ BodyUnsubscribeAll

SpecS ==
  /\ InitR
  /\ [][NextS]_vars
  /\ WF_vars(Invoke)
  /\ WF_vars(ListenerReturn)
  /\ WF_vars(Return)

\* ------------------------------------------------------------------ claims
Frames == {stack[i] : i \in DOMAIN stack}
\* A call of update, made by application code or a listener, whose updater
\* (if it was given one) returned.
IsUpdate(f) == f.kind = "update" /\ ~f.threw
\* The running call is about to return.
Done == IF stack = <<>> THEN FALSE ELSE Finished(Top)
KeysOf(v) == {k \in Keys : heap[v.id].f[k] # Absent}

\* C1: with replace false, an update whose updater function returns the
\* reference it was given invokes no listener and leaves getState() the
\* reference it was, whatever the state is (a plain record or not).
C1_NoOpSuppression ==
  \A f \in Frames :
    (IsUpdate(f) /\ ~f.replace /\ isFunction(f.arg, heap) /\ f.result = f.prev /\ ~f.nested)
      => (f.got = NoGot /\ getState = f.prev)

C3_FullReplacement ==
  \A f \in Frames :
    (IsUpdate(f) /\ f.replace /\ ~f.nested)
      => /\ getState = f.result
         /\ f.result = IF isFunction(f.arg, heap)
                       THEN (IF heap[f.arg.id].code = "identity" THEN f.prev
                             ELSE IF heap[f.arg.id].code = "const" THEN heap[f.arg.id].cap
                             ELSE IF f.prev.tag = "ref" /\ heap[f.prev.id].f["a"] = Prim(1)
                                  THEN Ref(3) ELSE Ref(2))
                       ELSE f.arg

\* C3 witness: a merged record state was replaced by the record {a: 2}.
C3_Witness ==
  /\ Done
  /\ IsUpdate(Top) /\ Top.replace /\ Top.accepted
  /\ isObject(Top.prev, heap) /\ Top.prev.id \notin Static
  /\ Top.arg = Ref(3) /\ getState = Ref(3)

C5_NotifyOnChange ==
  \A f \in Frames :
    (f.kind \in {"update", "reset"} /\ ~f.threw)
      => /\ f.accepted = (f.val # f.prev)
         /\ (f.accepted /\ ~f.nested) => getState = f.val
         /\ (f.accepted /\ Finished(f) /\ f = Top)
              => \A l \in f.snap \ f.removed : f.got[l] = f.val
         /\ ~f.accepted => (f.got = NoGot /\ (~f.nested => getState = f.prev))

\* C5 witness: an accepted update returns after the bound component and the
\* application's callback were both handed the new state.
C5_Witness ==
  /\ Done
  /\ IsUpdate(Top) /\ Top.accepted
  /\ Top.snap = {HookL, 1}
  /\ \A l \in Top.snap : Top.got[l] = getState
  /\ getState # Top.prev

\* The slice a selector reads, written out for the two selectors.
SliceB(v) == IF v.tag = "ref" /\ heap[v.id].f["b"] # Absent THEN heap[v.id].f["b"] ELSE Undef
SliceOf(v) == IF sel = "b" THEN SliceB(v) ELSE v

\* C6: the component bound with useFlowSelector(selector) re-renders during
\* an accepted update exactly when selector(new state) is another reference
\* than selector(previous state).
C6_SliceIsolation ==
  (Done /\ Top.kind \in {"update", "reset"} /\ Top.accepted /\ ~Top.nested
     /\ HookL \in Top.snap \ Top.removed)
    => (rerendered <=> SliceOf(Top.val) # SliceOf(Top.prev))

\* C6 witness: merging {a: 2} into {a: 1, b: #2} left the component bound to
\* s.b as it was.
C6_Witness ==
  /\ Done
  /\ IsUpdate(Top) /\ Top.accepted /\ ~Top.replace
  /\ sel = "b" /\ HookL \in Top.snap
  /\ Top.prev = Ref(1) /\ Top.result = Ref(3)
  /\ Top.got[HookL] = getState
  /\ ~rerendered

\* C7: once the function subscribe(l) returned has been called, l is not in
\* the registry and no update or notify invokes it until it is subscribed
\* again; a call of that function, the second one included, takes nothing
\* but l out of the registry.
C7_Unsubscribed ==
  /\ [](\A l \in Listeners : closure[l] >= 1 => l \notin SetOf(listeners))
  /\ [][\A l \in Listeners : closure[l] >= 1 =>
          \A i \in DOMAIN stack' :
            stack'[i].got[l] = IF i \in DOMAIN stack THEN stack[i].got[l] ELSE NoVal]_vars
  /\ [][\A l \in Listeners :
          (closure[l] \in {0, 1} /\ closure'[l] = closure[l] + 1)
            => listeners' = SelectSeq(listeners, LAMBDA x : x # l)]_vars

\* C7 witness: the function was called twice and the other subscription is
\* still in the registry, in a call that is handing out a value.
C7_Witness ==
  /\ closure[1] = 2
  /\ listeners = <<HookL>>
  /\ Done /\ Top.got[HookL] # NoVal /\ Top.got[1] = NoVal

\* C8: after unsubscribeAll() the registry is empty, whatever it held, and a
\* notify() or an update that follows invokes no listener.
C8_UnsubscribeAll ==
  /\ [](cleared => listeners = <<>>)
  /\ [][cleared =>
          \A i \in DOMAIN stack' :
            stack'[i].got = IF i \in DOMAIN stack THEN stack[i].got ELSE NoGot]_vars

\* C8 witness: a callback and the bound component were registered,
\* unsubscribeAll removed them, and a notify that followed is returning.
C8_Witness ==
  /\ cleared
  /\ closure[1] = 0
  /\ Done /\ Runs(Top) /\ Top.snap = {} /\ Top.got = NoGot

\* C9: resetState() leaves getState() the reference getInit() returns, and
\* notifies listeners only when the state before was another reference.
C9_ResetRoundTrip ==
  \A f \in Frames :
    (f.kind = "reset" /\ ~f.nested)
      => /\ getState = getInit
         /\ f.got # NoGot => f.prev # getInit

\* C10: getInit() returns the reference createFlowStore was given, whatever
\* is called and also when the state has been replaced.
C10_InitImmutable == [][getInit' = getInit]_vars

\* C10 witness: the state of a store created with a record has been replaced
\* by a primitive, after listeners came and went.
C10_Witness ==
  /\ getInit = Ref(1)
  /\ getState = Prim(1)
  /\ cleared
  /\ Done /\ Top.kind = "notify"

\* The value a call of notify is to hand out, by the claim as it stands and
\* by the default parameter of the language.
Explicit(f) == IF f.arg = NoArg THEN f.prev ELSE f.arg
Defaulted(f) == IF f.arg \in {NoArg, Undef} THEN f.prev ELSE f.arg

\* C11 as stated: notify(v) hands v to every registered listener, for every
\* v that is passed (undefined included), and notify() hands getState();
\* the state and the registry are left as they were.
C11_AsStated ==
  \A f \in Frames :
    f.kind = "notify"
      => /\ getState = f.prev
         /\ SetOf(listeners) = f.snap
         /\ \A l \in AllL : f.got[l] \in {NoVal, Explicit(f)}
         /\ Finished(f) => \A l \in f.snap : f.got[l] = Explicit(f)

\* C11: notify(v) with a value v other than undefined hands v to every
\* registered listener; notify() and notify(undefined) hand getState(); the
\* state and the registry are left as they were.
C11_ManualBroadcast ==
  \A f \in Frames :
    f.kind = "notify"
      => /\ getState = f.prev
         /\ SetOf(listeners) = f.snap
         /\ \A l \in AllL : f.got[l] \in {NoVal, Defaulted(f)}
         /\ Finished(f) => \A l \in f.snap : f.got[l] = Defaulted(f)

\* C11 witness: notify({a: 2}) returns after handing {a: 2} to the component
\* and the callback while the state is the record the store was created with.
C11_Witness ==
  /\ Done /\ Top.kind = "notify" /\ Top.arg = Ref(3)
  /\ Top.snap = {HookL, 1}
  /\ \A l \in Top.snap : Top.got[l] = Ref(3)
  /\ getState = Ref(1)

\* C12: no update and no resetState changes an object in place: an object
\* that anything still refers to after a step (the previous state held by
\* the running call, a value a listener was handed, the rendered slice) has
\* the keys and field references it had before the step, and the objects
\* application code created, the initial value among them, stay as created.
C12_NoMutationInPlace ==
  /\ [](\A a \in Static : heap[a] = Heap0[a])
  /\ [][\A a \in Addr :
          (heap[a].kind # "free" /\ Ref(a) \in Roots(state', stack', rendered'))
            => heap'[a] = heap[a]]_vars
  /\ [][(state.tag = "ref" /\ state' # state /\ stack' # <<>>)
          => (Top'.prev = state /\ heap'[state.id] = heap[state.id])]_vars

\* C12 witness: {a: 2} was merged into a state that an earlier merge had
\* made; the earlier state object still holds a = 1, the new one a = 2.
C12_Witness ==
  /\ Done
  /\ IsUpdate(Top) /\ ~Top.replace /\ Top.accepted /\ Top.result = Ref(3)
  /\ Top.prev.tag = "ref" /\ Top.prev.id \notin Static
  /\ heap[Top.prev.id].f["a"] = Prim(1)
  /\ heap[getState.id].f["a"] = Prim(2)
  /\ getInit = Ref(1) /\ heap[1].f["a"] = Prim(1)

\* C13: when the updater passed to update throws, the call ends with the
\* exception on its way to the caller, getState() is the reference it was
\* before the call, no listener is invoked and the registry is as it was.
C13_ThrowingUpdater ==
  \A f \in Frames :
    (f.kind = "update" /\ isFunction(f.arg, heap) /\ heap[f.arg.id].code = "throw")
      => /\ f.threw
         /\ Finished(f)
         /\ getState = f.prev
         /\ f.got = NoGot
         /\ SetOf(listeners) = f.snap

\* C13 witness: update(thrower) on a merged state with the component and the
\* callback registered: the state is still the merged record.
C13_Witness ==
  /\ Done /\ Top.threw /\ Top.kind = "update" /\ ~Top.replace
  /\ Top.snap = {HookL, 1}
  /\ getState.tag = "ref" /\ getState.id \notin Static
  /\ Top.got = NoGot

\* C14: the registry holds each callback at most once; a subscribe of a
\* callback that is registered leaves the registry as it is; one notify cycle
\* calls a callback once, not twice; and one unsubscribe leaves no entry of
\* the callback behind.
C14_SetSemantics ==
  /\ [](\A i, j \in DOMAIN listeners : listeners[i] = listeners[j] => i = j)
  /\ [][(subs'.recent # subs.recent /\ SetOf(subs'.recent) = SetOf(subs.recent))
          => listeners' = listeners]_vars
  /\ [][(stack # <<>> /\ Len(stack') = Len(stack) /\ Top'.idx = Top.idx + 1)
          => Top.got[listeners[Top.idx + 1]] = NoVal]_vars
  /\ [][\A l \in AllL :
          (l \in SetOf(subs.recent) /\ l \notin SetOf(subs'.recent))
            => l \notin SetOf(listeners')]_vars

\* C14 witness: the callback was subscribed, the component mounted, the
\* callback was subscribed again, and a notify() that followed has called
\* each of the two entries of the registry.
C14_Witness ==
  /\ listeners = <<1, HookL>>
  /\ subs.recent = <<HookL, 1>>
  /\ Done /\ Top.kind = "notify" /\ Top.arg = NoArg
  /\ \A l \in {HookL, 1} : Top.got[l] = getState

\* A comes before B in the sequence.
Before(seq, A, B) ==
  \E i, j \in DOMAIN seq : i < j /\ seq[i] = A /\ seq[j] = B

\* C20 as stated: in a notify cycle a callback is not called before one
\* whose most recent subscribe call was made earlier.
C20_AsStated ==
  \A f \in Frames : \A A, B \in AllL :
    (Before(subs.recent, A, B) /\ f.got[B] # NoVal) => f.got[A] # NoVal

\* C20: in a notify cycle a callback is not called before one that was added
\* to the registry earlier, where a subscribe of a callback that is already
\* registered adds nothing and leaves the callback at its place.
C20_RegistrationOrder ==
  \A f \in Frames : \A A, B \in AllL :
    (Before(subs.added, A, B) /\ f.got[B] # NoVal) => f.got[A] # NoVal

\* C20 witness: the callback was added before the component and subscribed
\* again after it; an accepted update has called the callback and has the
\* component left to call.
C20_Witness ==
  /\ subs.added = <<1, HookL>>
  /\ subs.recent = <<HookL, 1>>
  /\ stack # <<>>
  /\ Top.kind = "update" /\ Top.accepted /\ Top.idx = 1
  /\ Top.got[1] = getState /\ Top.got[HookL] = NoVal

\* What update's argument x comes to on the state s: x itself, or x(s) for
\* the updater functions application code has.
Returned(x, s) ==
  IF ~(x.tag = "ref" /\ heap[x.id].kind = "function") THEN x
  ELSE IF heap[x.id].code = "identity" THEN s
  ELSE IF heap[x.id].code = "const" THEN heap[x.id].cap
  ELSE IF s.tag = "ref" /\ heap[s.id].f["a"] = Prim(1) THEN Ref(3) ELSE Ref(2)

\* C15: every update that application code makes on a plain record state
\* (with replace false and a plain record result) works on the state the
\* call before it left: an updater is applied to that state, and afterwards
\* a key holds what this call wrote, or else what it held when the call
\* before returned.  So no write of an earlier call is lost, and update(f)
\* made k times applies f k times.
C15_NoLostUpdates ==
  [][(stack = <<>> /\ stack' # <<>> /\ Top'.kind = "update" /\ ~Top'.replace
        /\ ~Top'.threw /\ isObject(state, heap)
        /\ isObject(Returned(Top'.arg, state), heap))
      => /\ Top'.prev = state
         /\ Top'.result = Returned(Top'.arg, state)
         /\ state'.tag = "ref"
         /\ heap'[state'.id].kind = "plain"
         /\ \A k \in Keys :
              heap'[state'.id].f[k] =
                IF heap[Top'.result.id].f[k] # Absent THEN heap[Top'.result.id].f[k]
                ELSE heap[state.id].f[k]]_vars

\* C15 witness: on a store created with {a: 1, b: #2}, after calls that
\* wrote b = #3 and a = 2, update(flip) has made a = 1 and b is still what
\* the earlier call wrote.
C15_Witness ==
  /\ Done /\ IsUpdate(Top) /\ ~Top.replace /\ Top.arg = Ref(10)
  /\ getInit = Ref(1)
  /\ Top.prev.tag = "ref" /\ Top.prev.id \notin Static
  /\ heap[Top.prev.id].f = [k \in Keys |-> IF k = "a" THEN Prim(2) ELSE Ref(3)]
  /\ heap[getState.id].f = [k \in Keys |-> IF k = "a" THEN Prim(1) ELSE Ref(3)]

\* C19: an update or resetState that starts a notify cycle broadcasts a value
\* that is another reference than the state held before it, and a component
\* bound to the full state (identity selector) has re-rendered with that new
\* reference when the call returns.
C19_AcceptedIsNewReference ==
  /\ \A f \in Frames :
       (f.kind \in {"update", "reset"} /\ Runs(f))
         => /\ f.val # f.prev
            /\ \A l \in AllL : f.got[l] \in {NoVal, f.val}
  /\ (Done /\ Top.kind \in {"update", "reset"} /\ Runs(Top)
         /\ sel = "identity" /\ HookL \in Top.snap)
       => (rerendered /\ rendered = Top.val /\ rendered # Top.prev)

\* C19 witness: update((s) => s) on a merged record state was accepted, and
\* the component bound to the full state re-rendered with the new reference.
C19_Witness ==
  /\ Done /\ IsUpdate(Top) /\ ~Top.replace /\ Top.arg = Ref(8) /\ Top.accepted
  /\ Top.prev.tag = "ref" /\ Top.prev.id \notin Static
  /\ sel = "identity" /\ HookL \in Top.snap
  /\ rerendered /\ rendered = getState /\ rendered # Top.prev

\* C16: a call of update made by a listener is worked off before the notify
\* that runs the listener goes on: while it runs, no call below it calls a
\* listener; it works on the state as the update before it left it (its
\* updater is applied to that state, not to the value being broadcast) and
\* assigns what it computed; and when it returns, its own cycle has handed
\* its value to every registered listener.
C16_NestedInOrder ==
  /\ [][\A i \in DOMAIN stack :
          (i < Len(stack) /\ i \in DOMAIN stack')
            => (stack'[i].got = stack[i].got /\ stack'[i].body = stack[i].body)]_vars
  /\ [][(Len(stack') = Len(stack) + 1 /\ Top'.kind = "update")
          => /\ Top'.prev = state
             /\ Top'.result = Returned(Top'.arg, state)
             /\ Top'.replace => Top'.val = Top'.result
             /\ Top'.accepted = (Top'.val # state)
             /\ state' = Top'.val]_vars
  /\ [][(Len(stack) >= 2 /\ Len(stack') = Len(stack) - 1 /\ Top.accepted)
          => \A l \in SetOf(listeners) : Top.got[l] = Top.val]_vars

\* C16 witness: during the cycle of an accepted update, the second update
\* made by a listener is returning: it worked on the state the first one
\* left, which is not the value the outer notify is broadcasting.
C16_Witness ==
  /\ Len(stack) = 2 /\ Done
  /\ stack[1].kind = "update" /\ stack[1].accepted /\ stack[1].calls = 2
  /\ Top.kind = "update" /\ Top.accepted
  /\ Top.prev # stack[1].val
  /\ Top.prev = Ref(2) /\ getState = Ref(3)
  /\ \A l \in SetOf(listeners) : Top.got[l] = Ref(3)

\* C17 as stated: a listener that was taken out of the registry during a
\* notify cycle before forEach reached it (by unsubscribe, by the function
\* subscribe returned or by unsubscribeAll, called by a listener) is not
\* called in that cycle.
C17_AsStated ==
  [][(stack # <<>> /\ Len(stack') = Len(stack) /\ Top.body = NoL /\ Top'.body # NoL)
      => Top'.body \notin Top.removed]_vars

\* What holds of C17's case: a listener that was taken out of the registry
\* during a notify cycle before forEach reached it, and was not subscribed
\* again before the cycle ended, is not called in that cycle.
C17_RemovedNotInvoked ==
  /\ [][(stack # <<>> /\ Len(stack') = Len(stack) /\ Top.body = NoL /\ Top'.body # NoL)
          => Top'.body \notin (Top.removed \ Top.back)]_vars
  /\ [][\A i \in DOMAIN stack : \A l \in AllL :
          (i \in DOMAIN stack' /\ stack[i].got[l] = NoVal /\ stack'[i].got[l] # NoVal)
            => (l \in SetOf(listeners) /\ l \notin (stack[i].removed \ stack[i].back))]_vars

\* The case of C17 as it happens: the first listener of the cycle unsubscribed the second one,
\* and the cycle is over without the second one having been called.
C17_Witness ==
  /\ Len(stack) = 1 /\ Done
  /\ Top.snap = {1, 2}
  /\ Top.got[1] = Top.val
  /\ 2 \in Top.removed /\ 2 \notin Top.back /\ Top.got[2] = NoVal
  /\ listeners = <<1>>

\* C18: the listeners called in a notify cycle are among those that were
\* registered when the cycle began, whatever listeners subscribe during it.
C18_StableSnapshot ==
  \A f \in Frames : \A l \in AllL : f.got[l] # NoVal => l \in f.snap

\* C25: a merge is always accepted: an update with replace false whose result
\* and current state are both plain records assigns a newly created object,
\* another reference than the state before, also when the result is empty or
\* holds for every key the value the state already had, and when it returns
\* it has handed that object to every registered listener.
C25_MergeAlwaysAccepted ==
  /\ [][(Len(stack') = Len(stack) + 1 /\ Top'.kind = "update" /\ ~Top'.threw
           /\ ~Top'.replace /\ isObject(state, heap) /\ isObject(Top'.result, heap))
          => /\ Top'.accepted
             /\ state' # state
             /\ state' = Top'.val
             /\ state'.tag = "ref" /\ state'.id \notin Static
             /\ heap[state'.id].kind = "free"
             /\ heap'[state'.id].kind = "plain"]_vars
  /\ [](\A f \in Frames :
          (IsUpdate(f) /\ ~f.replace /\ isObject(f.prev, heap) /\ isObject(f.result, heap))
            => /\ f.accepted
               /\ (Finished(f) /\ f = Top) => \A l \in f.snap \ f.removed : f.got[l] = f.val)

\* C25 witness: update({}) on the record the store was created with has
\* handed the component and the callback a new object with the same fields.
C25_Witness ==
  /\ Done /\ IsUpdate(Top) /\ ~Top.replace /\ Top.arg = Ref(5)
  /\ Top.prev = Ref(1) /\ getState # Ref(1) /\ getState.id \notin Static
  /\ heap[getState.id].f = heap[1].f
  /\ Top.snap = {HookL, 1}
  /\ \A l \in Top.snap : Top.got[l] = getState

\* C21: when a call of update or resetState that application code made
\* returns, every registered listener that was called while it ran, by its
\* notify cycle or by that of an update a listener made, was handed in its
\* last call the reference getState() returns.
C21_NoStaleValues ==
  (Len(stack) = 1 /\ Done /\ Top.kind \in {"update", "reset"} /\ ~Top.threw)
    => \A l \in SetOf(listeners) : Top.last[l] \in {NoVal, getState}

\* C22: in one notify cycle no listener is called a second time, whatever
\* the listeners do during the cycle: also not one that was unsubscribed and
\* subscribed again before the cycle ended.
C22_AtMostOncePerCycle ==
  [][(stack # <<>> /\ Len(stack') = Len(stack) /\ Top.body = NoL /\ Top'.body # NoL)
      => Top.got[Top'.body] = NoVal]_vars

\* C23: a call of notify returns when its listeners, drawn from a finite set,
\* only subscribe and unsubscribe members of that set during the cycle
\* (every listener's body returns, and none calls update or notify).
C23_NotifyTerminates == (stack # <<>>) ~> (stack = <<>>)

\* C24: a listener that throws during the notify cycle of an accepted update
\* ends the call with the exception on its way to the caller of update, and
\* nothing is rolled back: the assignment is kept (getState() is the new
\* value), the listeners forEach had reached have been handed the new value,
\* and no listener is called in that cycle after the throw.
C24_ThrowingListener ==
  /\ [][ListenerThrow
          => /\ Top'.threw /\ Top'.body = NoL
             /\ state' = state /\ listeners' = listeners
             /\ Top'.got = Top.got]_vars
  /\ [](\A f \in Frames :
          (f.threw /\ f.accepted /\ f.kind \in {"update", "reset"})
            => /\ f = Top /\ Finished(f)
               /\ f.val # f.prev
               /\ ~f.nested => getState = f.val
               /\ \A i \in 1..f.idx : i <= Len(listeners) => f.got[listeners[i]] = f.val)
  /\ [][\A i \in DOMAIN stack :
          stack[i].threw
            => /\ Len(stack') = Len(stack) - 1
               /\ i \in DOMAIN stack' => stack'[i].got = stack[i].got]_vars

\* C24 witness: of two callbacks the first threw when the application's
\* update called it: the call is ending, the state is the merged record, the
\* first callback was handed it and the second was not called.
C24_Witness ==
  /\ Len(stack) = 1 /\ Done /\ Top.threw /\ Top.accepted /\ Top.kind = "update"
  /\ listeners = <<1, 2>> /\ Top.idx = 1
  /\ getState = Top.val /\ getState # Top.prev /\ Top.prev = Ref(1)
  /\ Top.got[1] = getState /\ Top.got[2] = NoVal

====
